---- MODULE Spec2Model ----
(***************************************************************************)
(* State-machine model of deepcsf/reports/resnet_plot.py: loading the CSF  *)
(* test results of a network from a directory tree, reducing every trial   *)
(* matrix to a sensitivity curve, interpolating it onto a uniform grid,    *)
(* comparing it with a reference CSF and drawing the curves on a figure.   *)
(*                                                                         *)
(* Numbers.  The program computes in IEEE 754 binary64 (Python floats and  *)
(* numpy float64 arrays), and so does the model: every arithmetic          *)
(* operation rounds its exact result to the nearest double, ties to even,  *)
(* and follows the IEEE rules for infinities, NaN and signed zeros.  The   *)
(* exact intermediate results need more than the 32 bits of a TLC integer, *)
(* so significands are natural numbers of arbitrary size, kept as digit    *)
(* sequences.                                                              *)
(***************************************************************************)
EXTENDS Integers, Sequences, FiniteSets, TLC

None == "None"

-----------------------------------------------------------------------------
(* Natural numbers of any size: the sequence of their digits in base 2^14, *)
(* least significant first, without leading zero digits (0 is <<>>).       *)

Base == 16384

\* 2^k for 0 <= k <= 14
Pow2(k) == <<1, 2, 4, 8, 16, 32, 64, 128, 256, 512, 1024, 2048, 4096, 8192, 16384>>[k + 1]

Limb(a, i) == IF i >= 1 /\ i <= Len(a) THEN a[i] ELSE 0

RECURSIVE BTrim(_)
BTrim(a) ==
    IF a = <<>> \/ a[Len(a)] # 0 THEN a ELSE BTrim(SubSeq(a, 1, Len(a) - 1))

RECURSIVE BFromInt(_)
BFromInt(n) == IF n = 0 THEN <<>> ELSE <<n % Base>> \o BFromInt(n \div Base)

RECURSIVE BToInt(_)
BToInt(a) == IF a = <<>> THEN 0 ELSE a[1] + Base * BToInt(Tail(a))

\* -1, 0 or 1 as a < b, a = b or a > b
BCmp(a, b) ==
    IF Len(a) # Len(b) THEN (IF Len(a) < Len(b) THEN -1 ELSE 1)
    ELSE LET D == {i \in 1..Len(a) : a[i] # b[i]}
         IN  IF D = {} THEN 0
             ELSE LET i == CHOOSE h \in D : \A j \in D : j <= h
                  IN  IF a[i] < b[i] THEN -1 ELSE 1

RECURSIVE AddFrom(_, _, _, _)
AddFrom(a, b, i, c) ==
    IF i > Len(a) /\ i > Len(b) THEN (IF c = 0 THEN <<>> ELSE <<c>>)
    ELSE LET t == Limb(a, i) + Limb(b, i) + c
         IN  <<t % Base>> \o AddFrom(a, b, i + 1, t \div Base)

BAdd(a, b) == AddFrom(a, b, 1, 0)

RECURSIVE SubFrom(_, _, _, _)
SubFrom(a, b, i, br) ==
    IF i > Len(a) THEN <<>>
    ELSE LET t == a[i] - Limb(b, i) - br
         IN  <<(t + Base) % Base>> \o SubFrom(a, b, i + 1, IF t < 0 THEN 1 ELSE 0)

\* a - b for a >= b
BSub(a, b) == BTrim(SubFrom(a, b, 1, 0))

\* the digits of the number whose i-th digit position holds cols[i] (any
\* natural number), plus the carry c
RECURSIVE Carry(_, _, _)
Carry(cols, i, c) ==
    IF i > Len(cols) THEN BFromInt(c)
    ELSE LET t == cols[i] + c
         IN  <<t % Base>> \o Carry(cols, i + 1, t \div Base)

RECURSIVE ColSum(_, _, _, _)
ColSum(a, b, k, i) ==
    IF i > Len(a) \/ i > k THEN 0
    ELSE (IF k + 1 - i <= Len(b) THEN a[i] * b[k + 1 - i] ELSE 0) + ColSum(a, b, k, i + 1)

\* a * b, for numbers of at most seven digits
BMul(a, b) ==
    IF a = <<>> \/ b = <<>> THEN <<>>
    ELSE BTrim(Carry([k \in 1..(Len(a) + Len(b) - 1) |-> ColSum(a, b, k, 1)], 1, 0))

\* a * n for 0 <= n < 2^16
BMulSmall(a, n) == BTrim(Carry([i \in 1..Len(a) |-> a[i] * n], 1, 0))

\* a * 2^n
BShl(a, n) ==
    IF a = <<>> THEN <<>>
    ELSE [i \in 1..(n \div 14) |-> 0] \o BMulSmall(a, Pow2(n % 14))

\* a \div 2^n
BShr(a, n) ==
    LET q == n \div 14
        r == n % 14
        hi == IF q >= Len(a) THEN <<>> ELSE SubSeq(a, q + 1, Len(a))
    IN  BTrim([i \in 1..Len(hi) |->
                  (hi[i] \div Pow2(r)) + (Limb(hi, i + 1) % Pow2(r)) * Pow2(14 - r)])

\* a % 2^n # 0
BLowNonzero(a, n) ==
    \/ \E i \in 1..(n \div 14) : Limb(a, i) # 0
    \/ Limb(a, n \div 14 + 1) % Pow2(n % 14) # 0

\* bit n of a (bit 0 is the lowest)
BBit(a, n) == (Limb(a, n \div 14 + 1) \div Pow2(n % 14)) % 2

\* the number of bits of a
BBitLen(a) ==
    IF a = <<>> THEN 0
    ELSE 14 * (Len(a) - 1) + (CHOOSE k \in 1..14 : Pow2(k - 1) <= a[Len(a)] /\ a[Len(a)] < Pow2(k))

\* One digit of the long division by d, whose highest digit is at least
\* Base / 2: <<R \div d, R % d>> for R < d * Base.  The quotient of the two
\* highest digits of R by the highest digit of d exceeds the digit by at
\* most two.
\* the digit is est - 1 or est - 2; p1 is d * (est - 1)
DivDigitBelow(R, d, est, p1) ==
    IF BCmp(p1, R) <= 0 THEN <<est - 1, BSub(R, p1)>>
    ELSE <<est - 2, BSub(R, BSub(p1, d))>>

\* the digit is est, est - 1 or est - 2; p0 is d * est
DivDigitFrom(R, d, est, p0) ==
    IF BCmp(p0, R) <= 0 THEN <<est, BSub(R, p0)>>
    ELSE DivDigitBelow(R, d, est, BSub(p0, d))

DivDigitEst(R, d, top) ==
    DivDigitFrom(R, d, IF top > Base - 1 THEN Base - 1 ELSE top,
                 BMulSmall(d, IF top > Base - 1 THEN Base - 1 ELSE top))

DivDigit(R, d) ==
    DivDigitEst(R, d, (Limb(R, Len(d) + 1) * Base + Limb(R, Len(d))) \div d[Len(d)])

\* the long division of the digits 1..i of a, behind the remainder r of the
\* digits above them and the quotient digits q they gave: <<quotient,
\* remainder>>
RECURSIVE LongDiv(_, _, _, _, _)
LongDivStep(a, d, i, q, step) ==
    IF step[1] >= 0 THEN LongDiv(a, d, i - 1, step[2], <<step[1]>> \o q) ELSE <<q, step[2]>>

LongDiv(a, d, i, r, q) ==
    IF i = 0 THEN <<q, r>>
    ELSE LongDivStep(a, d, i, q, DivDigit(BTrim(<<a[i]>> \o r), d))

\* <<a \div d, whether a % d # 0>> for d > 0
BDivResult(out) == <<BTrim(out[1]), out[2] # <<>>>>

\* a and d are shifted to make the highest digit of d at least Base / 2
BDivShifted(a1, d1) == BDivResult(LongDiv(a1, d1, Len(a1), <<>>, <<>>))

BDivBy(a, d, sh) == BDivShifted(BShl(a, sh), BShl(d, sh))

BDiv(a, d) == BDivBy(a, d, 14 - (BBitLen(d) - 14 * (Len(d) - 1)))

\* Newton's iteration for the integer square root of x, from y >= sqrt(x)
RECURSIVE SqrtNewton(_, _)
SqrtNewtonStep(x, y, z) == IF BCmp(z, y) >= 0 THEN y ELSE SqrtNewton(x, z)

SqrtNewton(x, y) == SqrtNewtonStep(x, y, BShr(BAdd(y, BDiv(x, y)[1]), 1))

BSqrtResult(x, root) == <<root, BCmp(BMul(root, root), x) # 0>>

\* <<the integer square root of x, whether x is not its square>>
BSqrt(x) == BSqrtResult(x, SqrtNewton(x, BShl(<<1>>, (BBitLen(x) + 1) \div 2)))

-----------------------------------------------------------------------------
(* IEEE 754 binary64, the float of Python and numpy.  A float is a record  *)
(* [k, s, e, m]: k is "fin", "inf" or "nan"; s is the sign bit; a finite   *)
(* float has the value (-1)^s * m * 2^e, where m is a natural number (see  *)
(* above) with 2^52 <= m < 2^53 and -1074 <= e <= 971, or m < 2^52 and     *)
(* e = -1074 (subnormal), or m = 0 and e = 0 (zero).  Every operation      *)
(* rounds its exact result to the nearest float, ties to even.             *)

Prec == 53
EMin == -1074
EMax == 971

Fin(s, e, m) == [k |-> "fin", s |-> s, e |-> IF m = <<>> THEN 0 ELSE e, m |-> m]

NaN == [k |-> "nan", s |-> 0, e |-> 0, m |-> <<>>]
Inf == [k |-> "inf", s |-> 0, e |-> 0, m |-> <<>>]
SignedInf(s) == [Inf EXCEPT !.s = s]
Zero == Fin(0, 0, <<>>)
One == Fin(0, -52, <<0, 0, 0, 1024>>)
Half == Fin(0, -53, <<0, 0, 0, 1024>>)
Two == Fin(0, -51, <<0, 0, 0, 1024>>)

\* np.pi = 3.141592653589793 = 884279719003555 * 2^-48
Pi == Fin(0, -51, <<11544, 4368, 8117, 1608>>)

IsNaN(a) == a.k = "nan"
IsFinite(a) == a.k = "fin"
IsZero(a) == a.k = "fin" /\ a.m = <<>>

\* the float nearest to (-1)^s * (M + f) * 2^E, where 0 <= f < 1 and f > 0
\* exactly if sticky (then M has at least 55 bits)
\* the rounded significand q1 at the exponent e1; it may have grown to
\* Prec + 1 bits
RoundCarry(s, q1, e1) ==
    IF BBitLen(q1) > Prec
    THEN (IF e1 + 1 > EMax THEN SignedInf(s) ELSE Fin(s, e1 + 1, BShr(q1, 1)))
    ELSE (IF e1 > EMax THEN SignedInf(s) ELSE Fin(s, e1, q1))

\* q is M without its sh lowest bits: rounded up if these are more than
\* half a unit of q, or half a unit and q is odd
RoundUp(s, M, sh, e1, sticky, q) ==
    RoundCarry(s,
               IF BBit(M, sh - 1) = 1
                  /\ (sticky \/ BLowNonzero(M, sh - 1) \/ BBit(q, 0) = 1)
               THEN BAdd(q, <<1>>) ELSE q,
               e1)

\* M loses its sh lowest bits (gains -sh zero bits for sh <= 0)
RoundShift(s, M, E, sticky, sh) ==
    IF sh <= 0 THEN Fin(s, E + sh, BShl(M, -sh))
    ELSE RoundUp(s, M, sh, E + sh, sticky, BShr(M, sh))

\* sh0 is the number of bits M has beyond Prec; a subnormal result keeps
\* fewer bits
RoundAt(s, M, E, sticky, sh0) ==
    RoundShift(s, M, E, sticky, IF E + sh0 < EMin THEN EMin - E ELSE sh0)

Round(s, M, E, sticky) ==
    IF M = <<>> THEN Fin(s, 0, <<>>)
    ELSE RoundAt(s, M, E, sticky, BBitLen(M) - Prec)

\* float(n) for an integer n
FromInt(n) == Round(IF n < 0 THEN 1 ELSE 0, BFromInt(IF n < 0 THEN -n ELSE n), 0, FALSE)

FNeg(a) == IF IsNaN(a) THEN a ELSE [a EXCEPT !.s = 1 - a.s]

FAbs(a) == IF IsNaN(a) THEN a ELSE [a EXCEPT !.s = 0]

\* An operand whose exponent is this much below the other's is less than a
\* quarter of the other's last place, and the sum rounds to the other.
FarApart == 2 * Prec

\* the sum of the significands ma and mb, both in units of 2^e
FAddAligned(sa, ma, sb, mb, e, c) ==
    IF sa # sb /\ c = 0 THEN Zero
    ELSE Round(IF sa = sb \/ c > 0 THEN sa ELSE sb,
               IF sa = sb THEN BAdd(ma, mb)
               ELSE IF c > 0 THEN BSub(ma, mb) ELSE BSub(mb, ma),
               e, FALSE)

FAddShifted(sa, ma, sb, mb, e) == FAddAligned(sa, ma, sb, mb, e, BCmp(ma, mb))

\* a + b for finite non-zero a and b, e the smaller exponent
FAddAt(a, b, e) == FAddShifted(a.s, BShl(a.m, a.e - e), b.s, BShl(b.m, b.e - e), e)

\* a + b
FAdd(a, b) ==
    IF IsNaN(a) \/ IsNaN(b) THEN NaN
    ELSE IF a.k = "inf" THEN (IF b.k = "inf" /\ b.s # a.s THEN NaN ELSE a)
    ELSE IF b.k = "inf" THEN b
    ELSE IF IsZero(a) THEN (IF IsZero(b) THEN Fin(IF a.s = 1 /\ b.s = 1 THEN 1 ELSE 0, 0, <<>>) ELSE b)
    ELSE IF IsZero(b) THEN a
    ELSE IF a.e - b.e > FarApart THEN a
    ELSE IF b.e - a.e > FarApart THEN b
    ELSE FAddAt(a, b, IF a.e < b.e THEN a.e ELSE b.e)

FSub(a, b) == FAdd(a, FNeg(b))

\* a * b
FMul(a, b) ==
    LET s == (a.s + b.s) % 2
    IN  IF IsNaN(a) \/ IsNaN(b) THEN NaN
        ELSE IF a.k = "inf" \/ b.k = "inf"
        THEN (IF IsZero(a) \/ IsZero(b) THEN NaN ELSE SignedInf(s))
        ELSE Round(s, BMul(a.m, b.m), a.e + b.e, FALSE)

\* the float nearest to q[1] * 2^E, or above it if q[2]
RoundInexact(s, q, E) == Round(s, q[1], E, q[2])

\* a / b for finite non-zero a and b: the significands are shifted to 53
\* bits (by la and lb), the quotient is taken to 56 bits or more
FDivAt(s, a, b, la, lb) ==
    RoundInexact(s, BDiv(BShl(a.m, la + 56), BShl(b.m, lb)),
                 (a.e - la) - (b.e - lb) - 56)

\* a / b as numpy divides: x / 0 is inf (0 / 0 is NaN), nothing is raised
FDiv(a, b) ==
    LET s == (a.s + b.s) % 2
    IN  IF IsNaN(a) \/ IsNaN(b) THEN NaN
        ELSE IF a.k = "inf" THEN (IF b.k = "inf" THEN NaN ELSE SignedInf(s))
        ELSE IF b.k = "inf" THEN Fin(s, 0, <<>>)
        ELSE IF IsZero(b) THEN (IF IsZero(a) THEN NaN ELSE SignedInf(s))
        ELSE IF IsZero(a) THEN Fin(s, 0, <<>>)
        ELSE FDivAt(s, a, b, Prec - BBitLen(a.m), Prec - BBitLen(b.m))

\* 1 / a
FInv(a) == FDiv(One, a)

\* sqrt(a) for finite a > 0: the significand is shifted by k0 or k0 + 1
\* bits to 108 bits or more at an even exponent
FSqrtShifted(a, k) == RoundInexact(0, BSqrt(BShl(a.m, k)), (a.e - k) \div 2)

FSqrtAt(a, k0) == FSqrtShifted(a, IF (a.e - k0) % 2 = 0 THEN k0 ELSE k0 + 1)

\* np.sqrt(a)
FSqrt(a) ==
    IF IsNaN(a) \/ IsZero(a) THEN a
    ELSE IF a.s = 1 THEN NaN
    ELSE IF a.k = "inf" THEN a
    ELSE FSqrtAt(a, 108 - BBitLen(a.m))

\* -1, 0 or 1 as a < b, a == b or a > b, for floats that are not NaN
FCmp(a, b) ==
    LET sa == IF IsZero(a) THEN 0 ELSE 1 - 2 * a.s
        sb == IF IsZero(b) THEN 0 ELSE 1 - 2 * b.s
        mag == IF a.k # b.k THEN (IF a.k = "inf" THEN 1 ELSE -1)
               ELSE IF a.k = "inf" THEN 0
               ELSE IF a.e # b.e THEN (IF a.e < b.e THEN -1 ELSE 1)
               ELSE BCmp(a.m, b.m)
    IN  IF sa # sb THEN (IF sa < sb THEN -1 ELSE 1)
        ELSE IF sa = 0 THEN 0
        ELSE sa * mag

\* a < b; every comparison with NaN is false
FLess(a, b) == ~IsNaN(a) /\ ~IsNaN(b) /\ FCmp(a, b) < 0

\* a == b; NaN equals nothing, and 0.0 == -0.0
FEq(a, b) == ~IsNaN(a) /\ ~IsNaN(b) /\ FCmp(a, b) = 0

\* n / d for integers n and d > 0 (Python's true division)
Float(n, d) == IF d = 1 THEN FromInt(n) ELSE FDiv(FromInt(n), FromInt(d))

\* smallest integer >= a, for a finite a of small magnitude
Ceil(a) ==
    LET down == IF a.e >= 0 THEN BToInt(BShl(a.m, a.e)) ELSE BToInt(BShr(a.m, -a.e))
        exact == a.e >= 0 \/ ~BLowNonzero(a.m, -a.e)
    IN  IF a.s = 1 THEN -down
        ELSE IF exact THEN down ELSE down + 1

\* '%.2f' % a: the sign and the number of hundredths nearest to |a| (ties to
\* even, decided on the exact value of a), for a of small magnitude
Format2(a) ==
    IF ~IsFinite(a) THEN [k |-> a.k, s |-> a.s, cents |-> 0]
    ELSE LET M == BMulSmall(a.m, 100)
             q == BShr(M, -a.e)
             up == /\ a.e < 0
                   /\ BBit(M, -a.e - 1) = 1
                   /\ (BLowNonzero(M, -a.e - 1) \/ BBit(q, 0) = 1)
         IN  [k |-> "fin", s |-> a.s,
              cents |-> IF a.e >= 0 THEN BToInt(BShl(M, a.e))
                        ELSE BToInt(q) + (IF up THEN 1 ELSE 0)]

-----------------------------------------------------------------------------
(* numpy on sequences of floats *)

\* acc + xs[i] + xs[i + 1] + ... + xs[last], added from left to right
RECURSIVE SumFrom(_, _, _, _)
SumNext(xs, i, last, acc1) ==
    IF IsNaN(acc1) THEN NaN ELSE SumFrom(xs, i + 1, last, acc1)

SumFrom(xs, i, last, acc) ==
    IF i > last THEN acc ELSE SumNext(xs, i, last, FAdd(acc, xs[i]))

\* acc + xs[i] + xs[i + 8] + ... over the indices up to last
RECURSIVE LaneSum(_, _, _, _)
LaneNext(xs, i, last, acc1) ==
    IF IsNaN(acc1) THEN NaN ELSE LaneSum(xs, i + 8, last, acc1)

LaneSum(xs, i, last, acc) ==
    IF i > last THEN acc ELSE LaneNext(xs, i, last, FAdd(acc, xs[i]))

\* the eight running sums over the first `full` numbers
Lanes(xs, full) == [j \in 1..8 |-> LaneSum(xs, j + 8, full, xs[j])]

\* r[lo] + ... + r[hi], each half summed first
RECURSIVE TreeSum(_, _, _)
TreeSum(r, lo, hi) ==
    IF lo = hi THEN r[lo]
    ELSE FAdd(TreeSum(r, lo, (lo + hi) \div 2), TreeSum(r, (lo + hi) \div 2 + 1, hi))

\* np.add.reduce(xs), the sum behind np.sum and np.mean, for at most 128
\* numbers (numpy's pairwise summation): fewer than eight are added from
\* left to right; from eight on, eight running sums take every eighth
\* number, are added up as a tree, and the remaining n % 8 numbers are added
\* to the result from left to right.
SeqSum(xs) ==
    IF Len(xs) < 8 THEN SumFrom(xs, 1, Len(xs), Zero)
    ELSE SumFrom(xs, Len(xs) - (Len(xs) % 8) + 1, Len(xs),
                 TreeSum(Lanes(xs, Len(xs) - (Len(xs) % 8)), 1, 8))

\* np.dot(xs, ys) of two one-dimensional arrays: the products added from
\* left to right, every product and every sum rounded
Dot(xs, ys) == SumFrom([i \in 1..Len(xs) |-> FMul(xs[i], ys[i])], 1, Len(xs), Zero)

Range(xs) == {xs[i] : i \in 1..Len(xs)}

\* as np_max, but taking the first element
np_max_first(xs) == xs[1]

\* ndarray.max(): NaN if any element is NaN, else the largest element
\* (the array is not empty)
np_max(xs) ==
    IF \E i \in 1..Len(xs) : IsNaN(xs[i]) THEN NaN
    ELSE xs[CHOOSE i \in 1..Len(xs) : \A j \in 1..Len(xs) : ~FLess(xs[i], xs[j])]

\* xs /= d (elementwise)
DivideBy(xs, d) == [i \in 1..Len(xs) |-> FDiv(xs[i], d)]

\* the elements of a finite set of floats that are not NaN, ascending
RECURSIVE SortAsc(_)
SortAsc(S) ==
    IF S = {} THEN <<>>
    ELSE LET m == CHOOSE x \in S : \A y \in S : ~FLess(y, x)
         IN  <<m>> \o SortAsc({y \in S : ~FEq(y, m)})

\* np.unique(xs): the distinct values, sorted ascending
np_unique(xs) == SortAsc(Range(xs))

\* np.arange(start, stop, step): ceil((stop - start) / step) values; the
\* first is start, the second start + step, and the i-th from there on
\* start + i * delta for the difference delta of the first two
np_arange(start, stop, step) ==
    LET n == Ceil(FDiv(FSub(stop, start), step))
        delta == FSub(FAdd(start, step), start)
    IN  [k \in 1..(IF n > 0 THEN n ELSE 0) |->
            IF k = 1 THEN start
            ELSE IF k = 2 THEN FAdd(start, step)
            ELSE FAdd(start, FMul(FromInt(k - 1), delta))]

\* as interp_one, but holding the left neighbour's value between two points
interp_one_step(x, xp, fp) ==
    LET n == Len(xp)
    IN  IF FLess(x, xp[1]) THEN fp[1]
        ELSE fp[CHOOSE k \in 1..n : ~FLess(x, xp[k]) /\ (k = n \/ FLess(x, xp[k + 1]))]

\* the result r1 taken from the left neighbour j, or when it is NaN the
\* result r2 taken from the right neighbour, as numpy does
interp_retry(r1, r2, fp, j) ==
    IF ~IsNaN(r1) THEN r1
    ELSE IF IsNaN(r2) /\ FEq(fp[j], fp[j + 1]) THEN fp[j]
    ELSE r2

interp_slope(x, xp, fp, j, slope) ==
    interp_retry(FAdd(FMul(slope, FSub(x, xp[j])), fp[j]),
                 FAdd(FMul(slope, FSub(x, xp[j + 1])), fp[j + 1]), fp, j)

\* x lies in [xp[j], xp[j + 1]), or j is the last index
interp_at(x, xp, fp, j) ==
    IF j = Len(xp) \/ FEq(xp[j], x) THEN fp[j]
    ELSE interp_slope(x, xp, fp, j,
                      FDiv(FSub(fp[j + 1], fp[j]), FSub(xp[j + 1], xp[j])))

\* the index j with xp[j] <= x < xp[j + 1] (the last index for x = xp[-1])
binary_search(x, xp) ==
    CHOOSE k \in 1..Len(xp) :
        ~FLess(x, xp[k]) /\ (k = Len(xp) \/ FLess(x, xp[k + 1]))

\* np.interp(x, xp, fp) for one query x; xp ascending and not empty: left
\* and right default to fp[0] and fp[-1]
interp_one(x, xp, fp) ==
    IF IsNaN(x) THEN x
    ELSE IF FLess(x, xp[1]) THEN fp[1]
    ELSE IF FLess(xp[Len(xp)], x) THEN fp[Len(xp)]
    ELSE interp_at(x, xp, fp, binary_search(x, xp))

np_interp(xs, xp, fp) == [i \in 1..Len(xs) |-> interp_one(xs[i], xp, fp)]

-----------------------------------------------------------------------------
(* The data reduction: one trial matrix to one summary record.  A trial    *)
(* matrix is a sequence of rows <<contrast, wave>>: columns 0 and 1 of the *)
(* file, the only ones the code reads.                                     *)

Column(result_mat, c) == [i \in 1..Len(result_mat) |-> result_mat[i][c]]

\* as _extract_sensitivity, but taking the first row of every wave
_extract_sensitivity_first(result_mat) ==
    LET unique_waves == np_unique(Column(result_mat, 2))
    IN  [k \in 1..Len(unique_waves) |->
            LET rows == SelectSeq(result_mat, LAMBDA r : FEq(r[2], unique_waves[k]))
            IN  FDiv(One, rows[1][1])]

_extract_sensitivity(result_mat) ==
    LET unique_waves == np_unique(Column(result_mat, 2))
    IN  [k \in 1..Len(unique_waves) |->
            LET rows == SelectSeq(result_mat, LAMBDA r : FEq(r[2], unique_waves[k]))
                lowest_contrast == rows[Len(rows)]
            IN  FDiv(One, lowest_contrast[1])]

wave2sf(wave, target_size) ==
    LET base_sf == FDiv(FDiv(FromInt(target_size), Two), Pi)
    IN  [i \in 1..Len(wave) |-> FMul(FDiv(One, wave[i]), base_sf)]

\* lines 56-57: the grid and the curve interpolated at it
uniform_sfs_interp(xvals, yvals, new_xs) == <<new_xs, np_interp(new_xs, xvals, yvals)>>

\* line 56: base_sf / e for every divisor e
uniform_sfs_grid(base_sf, es) == [i \in 1..Len(es) |-> FDiv(base_sf, es[i])]

\* as uniform_sfs, but with the grid stopping short of target_size / 2
uniform_sfs_short(xvals, yvals, target_size) ==
    uniform_sfs_interp(xvals, yvals,
        uniform_sfs_grid(FDiv(FDiv(FromInt(target_size), Two), Pi),
                         np_arange(One, FDiv(FromInt(target_size), Two), Half)))

\* lines 55-58 for max_xval = target_size / 2
uniform_sfs_upto(xvals, yvals, max_xval) ==
    uniform_sfs_interp(xvals, yvals,
        uniform_sfs_grid(FDiv(max_xval, Pi),
                         np_arange(One, FAdd(max_xval, Half), Half)))

\* returns <<new_xs, new_ys>>
uniform_sfs(xvals, yvals, target_size) ==
    uniform_sfs_upto(xvals, yvals, FDiv(FromInt(target_size), Two))

\* lines 77-87: the record of the waves, the sensitivities and the
\* interpolated pair int = <<new_xs, new_ys>>
_extract_data_record(wave, all, int, target_size) ==
    [unique_params |-> [wave |-> wave,
                        sf |-> DivideBy(wave2sf(wave, target_size), Two),
                        sf_int |-> DivideBy(wave2sf(int[1], target_size), Two)],
     sensitivities |-> [all |-> all, all_int |-> int[2]]]

\* lines 69-75
_extract_data_interp(wave, all, target_size) ==
    _extract_data_record(wave, all, uniform_sfs(wave, all, target_size), target_size)

_extract_data(result_mat, target_size) ==
    _extract_data_interp(np_unique(Column(result_mat, 2)),
                         _extract_sensitivity(result_mat), target_size)

-----------------------------------------------------------------------------
(* The directory tree.  A tree maps the names of the immediate             *)
(* subdirectories of `path` to their entries, and every entry name to the  *)
(* content of that file: [parses |-> FALSE] when np.loadtxt raises on it,  *)
(* else the trial matrix [parses |-> TRUE, mat |-> rows] it holds.  TLC cannot look into a string, so what the code *)
(* asks of a name (its first character, its suffix, the area labels it     *)
(* contains, its place in the lexicographic order) is tabulated.           *)

\* every name of the model, in ascending lexicographic order
NameOrder ==
    <<".cache", ".d.csv", "a_area1.csv", "b.csv", "c_area4_area2.csv", "e.txt",
      "lum", "rg", "yb">>

\* the name starts with "." (glob's * does not match it)
IsHidden(name) == name \in {".cache", ".d.csv"}

\* the name ends with ".csv"
EndsWithCsv(name) == name \in {".d.csv", "a_area1.csv", "b.csv", "c_area4_area2.csv"}

\* the indices k for which "area<k>" occurs in the name
AreasIn(name) ==
    CASE name = "a_area1.csv" -> {1}
      [] name = "c_area4_area2.csv" -> {2, 4}
      [] OTHER -> {}

AreaNames == <<"area0", "area1", "area2", "area3", "area4">>

\* sorted(names)
sorted(S) == SelectSeq(NameOrder, LAMBDA n : n \in S)

\* as glob_dirs, but matching hidden directories too
glob_dirs_hidden(t) == DOMAIN t

\* glob.glob(path + '/*/'): the subdirectories whose name does not start with "."
glob_dirs(t) == {d \in DOMAIN t : ~IsHidden(d)}

\* glob.glob(chns_dir + '*.csv')
glob_csv(entries) == {f \in DOMAIN entries : EndsWithCsv(f) /\ ~IsHidden(f)}

_area_name_from_path(file_name) ==
    LET hits == {area_ind \in 0..4 : area_ind \in AreasIn(file_name)}
    IN  IF hits = {} THEN None
        ELSE AreaNames[(CHOOSE k \in hits : \A h \in hits : k <= h) + 1]

-----------------------------------------------------------------------------
(* The program state *)

VARIABLES
    tree,           \* the directory tree under `path`
    chns,           \* the channel filter: [is_none |-> TRUE], or a set of names
    target_size,
    oracle,         \* which curve animal_csfs.csf returns (see OracleCurve)
    options,        \* the keyword arguments the caller passed
    kwargs,         \* plot_csf_areas' **kwargs: normalise, model_name, old_fig
    pc,             \* position in plot_csf_areas
    dirs,           \* _load_network_results: the directories still to visit
    chn_name,
    files,          \* the files of chn_name still to read
    chn_res,
    net_results,    \* dict, as the sequence of its items in insertion order
    net_summary,    \* dict, as the sequence of its items in insertion order
    net_csf_fig,    \* None or a reference to the figure
    chn_idx,        \* position of the channel loop of plot_csf_areas
    figure,         \* the figure object: whether plt.figure made it, and its axes
    test_idx,       \* position of the test loop of _plot_chn_csf
    frame,          \* the local arrays of the last test drawn by _plot_chn_csf
    error,          \* None or the exception that left plot_csf_areas
    ret             \* what plot_csf_areas returned ("unset" before it returns)

inputs == <<tree, chns, target_size, oracle, options>>
loader == <<dirs, chn_name, files, chn_res, net_results>>
plotter == <<kwargs, net_csf_fig, chn_idx, figure, test_idx, frame>>
vars == <<inputs, loader, plotter, net_summary, pc, error, ret>>

Raise(exc) == pc' = "raised" /\ error' = exc /\ ret' = ret

Keys(dict) == {dict[i].key : i \in 1..Len(dict)}

-----------------------------------------------------------------------------
(* _load_network_results *)

\* lines 22-23: net_results = dict(); the sorted glob of the subdirectories
LoadBegin ==
    /\ pc = "start"
    /\ net_results' = <<>>
    /\ dirs' = sorted(glob_dirs(tree))
    /\ pc' = "load_dir"
    /\ UNCHANGED <<inputs, chn_name, files, chn_res, plotter, net_summary, error, ret>>

\* lines 23-28: the next directory; one outside the filter is skipped
LoadDir ==
    /\ pc = "load_dir"
    /\ IF dirs = <<>>
       THEN /\ pc' = "summary"
            /\ UNCHANGED <<dirs, chn_name, files, chn_res>>
       ELSE /\ chn_name' = Head(dirs)
            /\ IF ~chns.is_none /\ Head(dirs) \notin chns.names
               THEN /\ dirs' = Tail(dirs)
                    /\ pc' = "load_dir"
                    /\ UNCHANGED <<files, chn_res>>
               ELSE /\ chn_res' = <<>>
                    /\ files' = sorted(glob_csv(tree[Head(dirs)]))
                    /\ pc' = "load_file"
                    /\ UNCHANGED dirs
    /\ UNCHANGED <<inputs, net_results, plotter, net_summary, error, ret>>

\* as loadtxt_raises, but reading a malformed file as an empty table
loadtxt_lenient(content) == FALSE

\* np.loadtxt(file_path, delimiter=',') raises on a malformed file
loadtxt_raises(content) == ~content.parses

\* lines 28-35: the next file of the directory is parsed and appended; after
\* the last one the channel is stored if anything was read
LoadFile ==
    /\ pc = "load_file"
    /\ IF files = <<>>
       THEN /\ net_results' = IF Len(chn_res) > 0
                               THEN Append(net_results, [key |-> chn_name, val |-> chn_res])
                               ELSE net_results
            /\ dirs' = Tail(dirs)
            /\ pc' = "load_dir"
            /\ UNCHANGED <<files, chn_res, error, ret>>
       ELSE LET file_name == Head(files)
                content == tree[chn_name][file_name]
            IN  IF loadtxt_raises(content)
                THEN /\ Raise("ValueError")
                     /\ UNCHANGED <<files, chn_res, net_results, dirs>>
                ELSE /\ chn_res' = Append(chn_res, <<content.mat, _area_name_from_path(file_name)>>)
                     /\ files' = Tail(files)
                     /\ UNCHANGED <<net_results, dirs, pc, error, ret>>
    /\ UNCHANGED <<inputs, chn_name, plotter, net_summary>>

-----------------------------------------------------------------------------
(* _extract_network_summary *)

\* np.loadtxt squeezes a file of fewer than two rows to a one-dimensional
\* array, on which result_mat[:, 1] raises IndexError
IsMatrix(result_mat) == Len(result_mat) >= 2

_extract_network_summary(results, size) ==
    [c \in 1..Len(results) |->
        [key |-> results[c].key,
         val |-> [i \in 1..Len(results[c].val) |->
                     <<_extract_data(results[c].val[i][1], size), results[c].val[i][2]>>]]]

\* lines 181-182
ExtractNetworkSummary ==
    /\ pc = "summary"
    /\ IF \E c \in 1..Len(net_results) : \E i \in 1..Len(net_results[c].val) :
              ~IsMatrix(net_results[c].val[i][1])
       THEN /\ Raise("IndexError")
            /\ UNCHANGED <<net_summary, net_csf_fig, chn_idx>>
       ELSE /\ net_summary' = _extract_network_summary(net_results, target_size)
            /\ net_csf_fig' = None
            /\ chn_idx' = 1
            /\ pc' = "plot"
            /\ UNCHANGED <<error, ret>>
    /\ UNCHANGED <<inputs, loader, kwargs, figure, test_idx, frame>>


-----------------------------------------------------------------------------
(* The reference CSF, scipy.stats.pearsonr and np.linalg.norm *)

\* animal_csfs.csf(f, model_name): the reference CSF is an external pure
\* function of the frequency.  The model draws it from two cases: a
\* constant one, and a step that falls from 2 to 1 at Cutoff.
OracleKinds == {"flat", "lowpass"}

Cutoff == Float(7, 8)

animal_csfs_csf(f, kind) ==
    CASE kind = "flat" -> One
      [] OTHER -> IF FLess(f, Cutoff) THEN Two ELSE One

\* [animal_csfs.csf(f, model_name) for f in freqs]
OracleCurve(kind, freqs) == [k \in 1..Len(freqs) |-> animal_csfs_csf(freqs[k], kind)]

\* np.all(x == x[0])
IsConstant(x) == \A i \in 1..Len(x) : FEq(x[i], x[1])

\* np.sign(a)
np_sign(a) ==
    IF IsNaN(a) \/ IsZero(a) THEN a
    ELSE IF a.s = 1 THEN FNeg(One) ELSE One

\* np.clip(r, -1, 1); NaN stays NaN
clip(r) ==
    IF IsNaN(r) THEN r
    ELSE IF FLess(One, r) THEN One
    ELSE IF FLess(r, FNeg(One)) THEN FNeg(One)
    ELSE r

\* x - np.mean(x)
Centred(x) ==
    LET mean == FDiv(SeqSum(x), FromInt(Len(x)))
    IN  [i \in 1..Len(x) |-> FSub(x[i], mean)]

Squares(v) == [i \in 1..Len(v) |-> FMul(v[i], v[i])]

\* xmax * sqrt(sum((xm / xmax)^2))
ScaledNormBy(xm, xmax) == FMul(xmax, FSqrt(SeqSum(Squares(DivideBy(xm, xmax)))))

\* the Euclidean norm of xm as pearsonr takes it: xm is scaled by its
\* largest magnitude xmax, and the norm is xmax * sqrt(sum((xm / xmax)^2))
ScaledNorm(xm) == ScaledNormBy(xm, np_max([i \in 1..Len(xm) |-> FAbs(xm[i])]))

\* the sum of (xm / normxm * ym / normym) over the samples, evaluated from
\* left to right as Python does, and clipped to [-1, 1]
Correlate(xm, ym) ==
    LET normxm == ScaledNorm(xm)
        normym == ScaledNorm(ym)
    IN  clip(SeqSum([i \in 1..Len(xm) |->
                        FDiv(FMul(FDiv(xm[i], normxm), ym[i]), normym)]))

\* as PearsonR, but without subtracting the mean of y
PearsonR_uncentred(x, y) ==
    IF IsConstant(x) \/ IsConstant(y) THEN NaN
    ELSE IF Len(x) = 2
    THEN FMul(np_sign(FSub(x[2], x[1])), np_sign(FSub(y[2], y[1])))
    ELSE Correlate(Centred(x), y)

\* stats.pearsonr(x, y)[0] for Len(x) = Len(y) >= 2, as scipy computes it
\* (scipy 1.14 and later; earlier versions take the norms and the sum from
\* BLAS and raise ValueError on an infinity or a NaN): NaN when an input is
\* constant; the product of the signs of the two steps for two samples;
\* else the sum of the products of the centred, normed samples.
PearsonR(x, y) ==
    IF IsConstant(x) \/ IsConstant(y) THEN NaN
    ELSE IF Len(x) = 2
    THEN FMul(np_sign(FSub(x[2], x[1])), np_sign(FSub(y[2], y[1])))
    ELSE Correlate(Centred(x), Centred(y))

\* np.linalg.norm(v) of a one-dimensional array: sqrt(v.dot(v))
np_linalg_norm(v) == FSqrt(Dot(v, v))

-----------------------------------------------------------------------------
(* _plot_chn_csf *)

_chn_plot_params(name) ==
    CASE name = "lum" ->
            [label |-> "lum", kwargs |-> [color |-> "gray", marker |-> "x"]]
      [] name = "rg" ->
            [label |-> "rg   ", kwargs |-> [color |-> "green", marker |-> "1"]]
      [] name = "yb" ->
            [label |-> "yb   ", kwargs |-> [color |-> "blue", marker |-> "2"]]
      [] OTHER -> [label |-> name, kwargs |-> [color |-> None, marker |-> None]]

\* as np_array, but sharing the buffer of an obj that is an array already
\* (sensitivities['all'] is a list, the other four fields are arrays)
np_array_nocopy(obj, ref) ==
    [data |-> obj, base |-> IF ref.field = "all" THEN <<>> ELSE <<ref>>]

\* np.array(obj): a new array holding a copy of obj.  `ref` says where obj
\* lives in net_summary; `base` is <<>> for an array that owns its buffer,
\* else <<ref>> for the place whose buffer it shares.
np_array(obj, ref) == [data |-> obj, base |-> <<>>]

\* arr /= d: the buffer of arr is overwritten
idiv(arr, d) == [arr EXCEPT !.data = DivideBy(arr.data, d)]

\* the summary after a write to arr: unchanged unless arr shares its buffer
\* with a field of a record
Written(summary, arr) ==
    IF arr.base = <<>> THEN summary
    ELSE LET b == arr.base[1]
         IN  [summary EXCEPT ![b.chn].val[b.test][1][b.group][b.field] = arr.data]

Ref(c, i, group, field) == [chn |-> c, test |-> i, group |-> group, field |-> field]

\* ' [r=%.2f | d=%.2f]' % (p_corr, euc_dis), as the two formatted numbers
suffix_label(p_corr, euc_dis) == [r |-> Format2(p_corr), d |-> Format2(euc_dis)]

\* The locals of one pass: org_yvals, and with a reference model hcsf,
\* int_yvals, p_corr, euc_dis and the suffix label; `raw` and `raw_int` are
\* org_yvals and int_yvals as they were before the division by their
\* maximum.
NoFrame ==
    [org_yvals |-> <<>>, raw |-> <<>>, compared |-> FALSE, hcsf |-> <<>>,
     int_yvals |-> <<>>, raw_int |-> <<>>, p_corr |-> NaN, euc_dis |-> Zero,
     label |-> suffix_label(NaN, Zero)]

\* arr /= arr.max()
idiv_max(arr) == idiv(arr, np_max(arr.data))

\* hcsf /= hcsf.max()
DivideByMax(xs) == DivideBy(xs, np_max(xs))

\* hcsf - int_yvals
Minus(xs, ys) == [k \in 1..Len(xs) |-> FSub(xs[k], ys[k])]

\* the line of the channel's curve (line 168); its suffix is <<>> for the
\* empty suffix_label, else the one-element sequence holding the label
ChnLine(params, x, y) ==
    [label |-> params.label, x |-> x, y |-> y, kwargs |-> params.kwargs, suffix |-> <<>>]

\* line 154: the reference curve, scaled to the peak of the network's curve
HumanLine(x, hcsf, peak) ==
    [label |-> "human", x |-> x, y |-> [k \in 1..Len(hcsf) |-> FMul(hcsf[k], peak)],
     kwargs |-> [color |-> "black", marker |-> None], suffix |-> <<>>]

Drawn(axes, i, ln) == [axes EXCEPT ![i].lines = Append(@, ln)]

\* lines 163-165
Scored(p_corr, euc_dis) ==
    [p_corr |-> p_corr, euc_dis |-> euc_dis, label |-> suffix_label(p_corr, euc_dis)]

Scores(hcsf, int_yvals) ==
    Scored(PearsonR(int_yvals, hcsf), np_linalg_norm(Minus(hcsf, int_yvals)))

\* lines 166-168 of a pass that made the comparison
PlotScored(summary, axes, i, fr, ln, hcsf, raw_int, int_yvals, sc) ==
    [exc |-> None,
     axes |-> Drawn(axes, i, [ln EXCEPT !.suffix = <<sc.label>>]),
     summary |-> summary,
     frame |-> [fr EXCEPT !.compared = TRUE, !.hcsf = hcsf,
                          !.int_yvals = int_yvals, !.raw_int = raw_int,
                          !.p_corr = sc.p_corr, !.euc_dis = sc.euc_dis,
                          !.label = sc.label]]

\* lines 162-168: int_yvals0 divided by its maximum is int_yvals
PlotCompared(summary, axes, i, fr, ln, hcsf, int_yvals0, int_yvals) ==
    IF Len(hcsf) < 2
    THEN \* line 163: pearsonr needs at least two points
         [exc |-> "ValueError", axes |-> axes, summary |-> Written(summary, int_yvals),
          frame |-> fr]
    ELSE PlotScored(Written(summary, int_yvals), axes, i, fr, ln, hcsf,
                    int_yvals0.data, int_yvals.data, Scores(hcsf, int_yvals.data))

\* lines 157-168
PlotInterpolated(summary, axes, i, fr, ln, orc, int_freqs, int_yvals0) ==
    IF Len(int_freqs.data) = 0
    THEN \* line 159: max() of an empty array
         [exc |-> "ValueError", axes |-> axes, summary |-> summary, frame |-> fr]
    ELSE PlotCompared(summary, axes, i, fr, ln,
                      DivideByMax(OracleCurve(orc, int_freqs.data)),
                      int_yvals0, idiv_max(int_yvals0))

\* lines 150-168: the curve org_yvals at org_freqs is drawn, after the
\* reference curve if there is a reference model
PlotCurve(summary, axes, c, i, kw, orc, fr, ln, org_freqs, org_yvals) ==
    IF kw.model_name = None
    THEN [exc |-> None, axes |-> Drawn(axes, i, ln), summary |-> summary, frame |-> fr]
    ELSE PlotInterpolated(
             summary,
             Drawn(axes, i, HumanLine(org_freqs.data,
                                      DivideByMax(OracleCurve(orc, org_freqs.data)),
                                      np_max(org_yvals.data))),
             i, fr, ln, orc,
             np_array(summary[c].val[i][1].unique_params.sf_int,
                      Ref(c, i, "unique_params", "sf_int")),
             np_array(summary[c].val[i][1].sensitivities.all_int,
                      Ref(c, i, "sensitivities", "all_int")))

\* lines 144-168: org_yvals0 is the curve as read, org_yvals the curve drawn
PlotNormalised(summary, axes, c, i, kw, orc, org_freqs, org_yvals0, org_yvals) ==
    PlotCurve(IF kw.normalise THEN Written(summary, org_yvals) ELSE summary,
              axes, c, i, kw, orc,
              [NoFrame EXCEPT !.org_yvals = org_yvals.data, !.raw = org_yvals0.data],
              ChnLine(_chn_plot_params(summary[c].key), org_freqs.data, org_yvals.data),
              org_freqs, org_yvals)

\* lines 135-168 on the axes of the test
PlotOnAxes(summary, axes, c, i, kw, orc, org_freqs, org_yvals0) ==
    PlotNormalised(summary, axes, c, i, kw, orc, org_freqs, org_yvals0,
                   IF kw.normalise THEN idiv_max(org_yvals0) ELSE org_yvals0)

\* One pass of the loop of lines 133-175, for test i of channel c drawn on
\* the axes `axes`: the exception raised (or None), the axes, the summary
\* and the local arrays it leaves.
PlotOneTest(summary, axes, c, i, kw, orc) ==
    IF kw.old_fig # None /\ i > Len(axes)
    THEN \* line 139: fig.axes[i]
         [exc |-> "IndexError", axes |-> axes, summary |-> summary, frame |-> NoFrame]
    ELSE PlotOnAxes(
             summary,
             [(IF kw.old_fig # None THEN axes
               ELSE Append(axes, [title |-> None, lines |-> <<>>]))
                 EXCEPT ![i].title = summary[c].val[i][2]],
             c, i, kw, orc,
             np_array(summary[c].val[i][1].unique_params.sf,
                      Ref(c, i, "unique_params", "sf")),
             np_array(summary[c].val[i][1].sensitivities.all,
                      Ref(c, i, "sensitivities", "all")))

\* lines 183-188: the next channel is handed to _plot_chn_csf (lines 127-132),
\* or the figure is returned after the last one
PlotChannel ==
    /\ pc = "plot"
    /\ IF chn_idx > Len(net_summary)
       THEN /\ pc' = "done"
            /\ ret' = net_csf_fig
            /\ UNCHANGED <<kwargs, figure, test_idx>>
       ELSE /\ kwargs' = IF net_csf_fig # None
                         THEN [kwargs EXCEPT !.old_fig = net_csf_fig, !.model_name = None]
                         ELSE kwargs
            /\ figure' = IF kwargs'.old_fig = None
                         THEN [exists |-> TRUE, axes |-> <<>>]
                         ELSE figure
            /\ test_idx' = 1
            /\ pc' = "plot_test"
            /\ UNCHANGED ret
    /\ UNCHANGED <<inputs, loader, net_summary, net_csf_fig, chn_idx, frame, error>>

\* the state after the pass `out` of the loop
PlotTestDone(out) ==
    /\ figure' = [figure EXCEPT !.axes = out.axes]
    /\ net_summary' = out.summary
    /\ frame' = out.frame
    /\ IF out.exc # None
       THEN /\ Raise(out.exc)
            /\ UNCHANGED test_idx
       ELSE /\ test_idx' = test_idx + 1
            /\ UNCHANGED <<pc, error, ret>>
    /\ UNCHANGED <<net_csf_fig, chn_idx>>

\* lines 133-176: one test of the channel is drawn; after the last one
\* _plot_chn_csf returns the figure
PlotTest ==
    /\ pc = "plot_test"
    /\ IF test_idx > Len(net_summary[chn_idx].val)
       THEN /\ net_csf_fig' = "fig"
            /\ chn_idx' = chn_idx + 1
            /\ pc' = "plot"
            /\ UNCHANGED <<net_summary, figure, test_idx, frame, error, ret>>
       ELSE PlotTestDone(PlotOneTest(net_summary, figure.axes, chn_idx, test_idx,
                                     kwargs, oracle))
    /\ UNCHANGED <<inputs, loader, kwargs>>


-----------------------------------------------------------------------------
(* Initial states: a call plot_csf_areas(path, target_size, chns, **kwargs) *)

MaxRows == 3
MaxTarget == 8
SmallTarget == 3

Contrasts == {Zero, Float(1, 4), Half}
Waves == {One, Two}
Rows == Contrasts \X Waves

\* every trial matrix of at most MaxRows rows
AllMats == UNION {[1..n -> Rows] : n \in 0..MaxRows}

\* the trial matrices of two rows, and the shorter ones, over waves that lie
\* inside the range of the grid points of the larger target sizes
GridWaves == {Half, Float(5, 8)}
GridRows == Contrasts \X GridWaves
PairMats ==
    {<<>>} \cup {<<r>> : r \in GridRows} \cup {<<r, q>> : r \in GridRows, q \in GridRows}

Bad == [parses |-> FALSE, mat |-> <<>>]
File(mat) == [parses |-> TRUE, mat |-> mat]

MatA == <<<<Half, One>>, <<Float(1, 4), One>>, <<Half, Two>>>>
MatB == <<<<Float(1, 4), Two>>, <<Half, One>>>>

NoFilter == [is_none |-> TRUE, names |-> {}]
Filter(S) == [is_none |-> FALSE, names |-> S]

\* the entries a directory can hold: any subset of `names`, every file that
\* is read with a content of `contents` (b.csv never holds MatB, nor
\* c_area4_area2.csv MatA)
Entries(names, contents) ==
    {e \in UNION {[F -> contents \cup {Bad}] : F \in SUBSET names} :
        \A f \in DOMAIN e :
            /\ (~EndsWithCsv(f) \/ IsHidden(f)) => e[f] = Bad
            /\ f = "b.csv" => e[f] # File(MatB)
            /\ f = "c_area4_area2.csv" => e[f] # File(MatA)}

Trees(dirnames, names, contents) ==
    UNION {[D -> Entries(names, contents)] : D \in SUBSET dirnames}

Kwargs(normalises, model_names) ==
    {[normalise |-> n, model_name |-> m, old_fig |-> None] :
        n \in normalises, m \in model_names}

\* one channel holding one file
OneFile(contents) ==
    {[d \in {"lum"} |-> [f \in {"a_area1.csv"} |-> c]] : c \in contents}

InitWith(trees, filters, sizes, kws, kinds) ==
    /\ tree \in trees
    /\ chns \in filters
    /\ target_size \in sizes
    /\ options \in kws
    /\ kwargs = options
    /\ oracle \in (IF options.model_name = None THEN {"flat"} ELSE kinds)
    /\ pc = "start"
    /\ dirs = <<>>
    /\ chn_name = None
    /\ files = <<>>
    /\ chn_res = <<>>
    /\ net_results = <<>>
    /\ net_summary = <<>>
    /\ net_csf_fig = None
    /\ chn_idx = 0
    /\ figure = [exists |-> FALSE, axes |-> <<>>]
    /\ test_idx = 0
    /\ frame = NoFrame
    /\ error = None
    /\ ret = "unset"

\* result sets of up to two channels with up to two tests each
Init ==
    InitWith(Trees({"lum", "rg"}, {"b.csv", "c_area4_area2.csv"},
                   {File(MatA), File(MatB)}),
             {NoFilter, Filter({"lum", "yb"})}, {MaxTarget},
             Kwargs(BOOLEAN, {None, "generic_csf"}), {"lowpass"})

\* directory trees with hidden directories, hidden files and other files
InitLoad ==
    InitWith(Trees({".cache", "lum", "rg"}, {".d.csv", "a_area1.csv", "e.txt"},
                   {File(MatB)}),
             {NoFilter, Filter({}), Filter({"lum"}), Filter({".cache", "rg", "yb"})},
             {SmallTarget}, Kwargs({FALSE}, {None}), {"flat"})

\* one channel with one test: every trial matrix
InitData ==
    InitWith(OneFile({Bad} \cup {File(m) : m \in AllMats}),
             {NoFilter}, {SmallTarget}, Kwargs(BOOLEAN, {None}), {"flat"})

\* one channel with one test: every sensitivity curve over one or two waves,
\* every target size, every reference curve
InitGrid ==
    InitWith(OneFile({File(m) : m \in PairMats}),
             {NoFilter}, 1..MaxTarget,
             Kwargs({FALSE}, {None}) \cup Kwargs({TRUE}, {"generic_csf"}),
             OracleKinds)

Next ==
    \/ LoadBegin
    \/ LoadDir
    \/ LoadFile
    \/ ExtractNetworkSummary
    \/ PlotChannel
    \/ PlotTest

Spec == Init /\ [][Next]_vars

SpecLoad == InitLoad /\ [][Next]_vars

SpecData == InitData /\ [][Next]_vars

SpecGrid == InitGrid /\ [][Next]_vars

-----------------------------------------------------------------------------
(* Properties *)

\* the tests of the summary, as <<channel index, test index>>
Tests ==
    UNION {{<<c, i>> : i \in 1..Len(net_summary[c].val)} : c \in 1..Len(net_summary)}

MatOf(ci) == net_results[ci[1]].val[ci[2]][1]
RecOf(ci) == net_summary[ci[1]].val[ci[2]][1]

\* _extract_network_summary has just returned
Built == pc = "plot" /\ chn_idx = 1

DistinctWaves(mat) == {mat[r][2] : r \in 1..Len(mat)}

\* the k-th smallest element of S
KthSmallest(S, k) == CHOOSE w \in S : Cardinality({v \in S : FLess(v, w)}) = k - 1

\* the index of the last row of mat whose wave is w
LastRow(mat, w) ==
    CHOOSE r \in 1..Len(mat) :
        mat[r][2] = w /\ \A q \in (r + 1)..Len(mat) : mat[q][2] # w

\* s is 1 / contrast: infinite for the contrast 0, else the double nearest
\* to the reciprocal
IsInverse(s, contrast) ==
    IF IsZero(contrast) THEN s = Inf ELSE s = FDiv(One, contrast)

\* C1: _extract_sensitivity returns one value per distinct wave, and the
\* k-th value is 1 / contrast of the last row, in file order, whose wave is
\* the k-th smallest distinct wave.
C1_LastRowPerWave ==
    Built =>
        \A ci \in Tests :
            LET mat == MatOf(ci)
                csf == RecOf(ci).sensitivities.all
                W == DistinctWaves(mat)
            IN  /\ Len(csf) = Cardinality(W)
                /\ \A k \in 1..Cardinality(W) :
                       IsInverse(csf[k], mat[LastRow(mat, KthSmallest(W, k))][1])

\* two waves, and a wave whose first and last rows differ in contrast
C1_Witness ==
    /\ Built
    /\ \E ci \in Tests :
          LET mat == MatOf(ci)
          IN  /\ Cardinality(DistinctWaves(mat)) = 2
              /\ \E r, q \in 1..Len(mat) :
                    r < q /\ mat[r][2] = mat[q][2] /\ mat[r][1] # mat[q][1]

\* the k-th query point of the uniform grid: (target_size / 2 / pi) / e for
\* the k-th e of 1, 1.5, 2, ...
GridPoint(k) == FDiv(FDiv(FDiv(FromInt(target_size), Two), Pi), Float(k + 1, 2))

\* y is the linear interpolation at x of the points (x0, y0) and (x1, y1)
IsLinear(x, y, x0, y0, x1, y1) ==
    FMul(y, FSub(x1, x0)) = FAdd(FMul(y0, FSub(x1, x)), FMul(y1, FSub(x, x0)))

\* C7: a grid query point below the smallest wave gets the sensitivity of
\* the smallest wave, one above the largest wave that of the largest wave,
\* and one between two neighbouring waves the linear interpolation of their
\* (wave, sensitivity) points.
C7_InterpClamps ==
    Built =>
        \A ci \in Tests :
            LET w == RecOf(ci).unique_params.wave
                y == RecOf(ci).sensitivities.all
                yi == RecOf(ci).sensitivities.all_int
                n == Len(w)
            IN  \A k \in 1..Len(yi) :
                    LET x == GridPoint(k)
                    IN  /\ FLess(x, w[1]) => yi[k] = y[1]
                        /\ FLess(w[n], x) => yi[k] = y[n]
                        /\ \A j \in 1..(n - 1) :
                               (FLess(w[j], x) /\ FLess(x, w[j + 1])) =>
                                   IsLinear(x, yi[k], w[j], y[j], w[j + 1], y[j + 1])

\* two waves of different finite sensitivity, with one query point above
\* the larger wave, one between the two and one below the smaller
C7_Witness ==
    /\ Built
    /\ \E ci \in Tests :
          LET w == RecOf(ci).unique_params.wave
              y == RecOf(ci).sensitivities.all
              yi == RecOf(ci).sensitivities.all_int
          IN  /\ Len(w) = 2
              /\ IsFinite(y[1]) /\ IsFinite(y[2]) /\ y[1] # y[2]
              /\ \E k \in 1..Len(yi) : FLess(w[2], GridPoint(k)) /\ yi[k] = y[2]
              /\ \E k \in 1..Len(yi) :
                    /\ FLess(w[1], GridPoint(k)) /\ FLess(GridPoint(k), w[2])
                    /\ yi[k] # y[1] /\ yi[k] # y[2]
              /\ \E k \in 1..Len(yi) : FLess(GridPoint(k), w[1]) /\ yi[k] = y[1]

\* 2^-50, four units in the last place of 1.0
RoundingTol == Fin(0, -102, <<0, 0, 0, 1024>>)

\* a is b up to rounding: |a - b| <= 2^-50 * |b|
Close(a, b) ==
    /\ IsFinite(a)
    /\ ~FLess(FMul(RoundingTol, FAbs(b)), FAbs(FSub(a, b)))

\* the k-th entry of sf_int as a function of target_size alone: the grid
\* point, turned back into a frequency by wave2sf, halved
GridSf(k) ==
    FDiv(FMul(FDiv(One, GridPoint(k)), FDiv(FDiv(FromInt(target_size), Two), Pi)), Two)

\* C10 as claimed: sf_int depends on target_size alone: it has
\* target_size - 1 entries (none for target_size 1), and the k-th is half of
\* the k-th divisor (k + 1) / 2 of the sequence 1, 1.5, 2, ...,
\* target_size / 2, that is (k + 1) / 4.
C10_SfIntGrid ==
    Built =>
        \A ci \in Tests :
            LET sf_int == RecOf(ci).unique_params.sf_int
            IN  /\ Len(sf_int) = target_size - 1
                /\ \A k \in 1..Len(sf_int) : sf_int[k] = Float(k + 1, 4)

\* C10 as amended: sf_int depends on target_size alone and has
\* target_size - 1 entries; the k-th is (k + 1) / 4 up to the rounding of
\* the two divisions by pi-scaled numbers that produce it, not exactly.
C10_SfIntGridRounded ==
    Built =>
        \A ci \in Tests :
            LET sf_int == RecOf(ci).unique_params.sf_int
            IN  /\ Len(sf_int) = target_size - 1
                /\ \A k \in 1..Len(sf_int) :
                       /\ sf_int[k] = GridSf(k)
                       /\ Close(sf_int[k], Float(k + 1, 4))

\* a grid of at least three points, one of which is not (k + 1) / 4
C10_Witness ==
    /\ Built
    /\ \E ci \in Tests :
          LET sf_int == RecOf(ci).unique_params.sf_int
          IN  /\ Len(sf_int) >= 3
              /\ \E k \in 1..Len(sf_int) : sf_int[k] # Float(k + 1, 4)

\* xs holds a value that is neither zero nor NaN
HasSignal(xs) == \E i \in 1..Len(xs) : ~IsZero(xs[i]) /\ ~IsNaN(xs[i])

\* xs holds no NaN and its largest value is finite and above zero
HasPositiveFiniteMax(xs) ==
    /\ \A i \in 1..Len(xs) : ~IsNaN(xs[i]) /\ xs[i] # Inf
    /\ \E i \in 1..Len(xs) : FLess(Zero, xs[i])

\* the maximum of xs is exactly 1
MaxIsOne(xs) ==
    /\ \E i \in 1..Len(xs) : xs[i] = One
    /\ \A i \in 1..Len(xs) : ~IsNaN(xs[i]) /\ ~FLess(One, xs[i])

\* the pass drew frame.org_yvals divided by its maximum
Normalised == options.normalise /\ frame.org_yvals # <<>>

\* C5 as claimed: a curve with at least one non-zero, non-NaN value has
\* maximum exactly 1 after the division by its own maximum (the raw curve
\* and the interpolated curve of _plot_chn_csf).
C5_MaxIsOneIfSignal ==
    /\ (Normalised /\ HasSignal(frame.raw)) => MaxIsOne(frame.org_yvals)
    /\ (frame.compared /\ HasSignal(frame.raw_int)) => MaxIsOne(frame.int_yvals)

\* C5 as amended: a curve without NaN whose maximum is finite and above
\* zero has maximum exactly 1 after the division by its own maximum.
C5_MaxIsOneIfPositiveFinite ==
    /\ (Normalised /\ HasPositiveFiniteMax(frame.raw)) => MaxIsOne(frame.org_yvals)
    /\ (frame.compared /\ HasPositiveFiniteMax(frame.raw_int)) => MaxIsOne(frame.int_yvals)

\* both curves were divided, neither was constant, both were changed, and
\* the interpolated curve holds a value that is no power of two
C5_Witness ==
    /\ Normalised
    /\ frame.compared
    /\ HasPositiveFiniteMax(frame.raw)
    /\ HasPositiveFiniteMax(frame.raw_int)
    /\ ~IsConstant(frame.raw)
    /\ ~IsConstant(frame.raw_int)
    /\ frame.raw # frame.org_yvals
    /\ frame.raw_int # frame.int_yvals
    /\ \E i \in 1..Len(frame.raw_int) : frame.raw_int[i].m # <<0, 0, 0, 1024>>

\* a == b elementwise
Identical(a, b) == Len(a) = Len(b) /\ \A i \in 1..Len(a) : FEq(a[i], b[i])

Hundredths(n) == [k |-> "fin", s |-> 0, cents |-> n]

\* 2^-40: the rounding errors of the sums and quotients behind r stay far
\* below it
CorrTol == Fin(0, -92, <<0, 0, 0, 1024>>)

\* 1 - 2^-40 <= r <= 1
NearOne(r) == IsFinite(r) /\ ~FLess(r, FSub(One, CorrTol)) /\ ~FLess(One, r)

\* C8 as claimed: identical normalised interpolated curves of the network
\* and of the reference give Pearson correlation 1.0 and Euclidean
\* distance 0.0.
C8_IdenticalScores ==
    (frame.compared /\ Identical(frame.int_yvals, frame.hcsf)) =>
        frame.p_corr = One /\ frame.euc_dis = Zero

\* C8 as amended: identical curves give Euclidean distance 0.0 (d=0.00 on
\* the label); the Pearson correlation is NaN (r=nan) when the curve is
\* constant, else 1.0 up to rounding (within 2^-40 below 1.0, never above
\* it; r=1.00 on the label).
C8_IdenticalScoresUnlessConstant ==
    (frame.compared /\ Identical(frame.int_yvals, frame.hcsf)) =>
        /\ frame.euc_dis = Zero
        /\ frame.label.d = Hundredths(0)
        /\ IF IsConstant(frame.int_yvals)
           THEN IsNaN(frame.p_corr) /\ frame.label.r.k = "nan"
           ELSE NearOne(frame.p_corr) /\ frame.label.r = Hundredths(100)

\* identical curves of at least three points that are not constant, and
\* whose correlation is rounded to a number below 1.0
C8_Witness ==
    /\ frame.compared
    /\ Identical(frame.int_yvals, frame.hcsf)
    /\ ~IsConstant(frame.int_yvals)
    /\ Len(frame.int_yvals) >= 3
    /\ frame.p_corr # One

\* _load_network_results has returned
Loaded == pc \in {"summary", "plot", "plot_test", "done"}

InFilter(d) == chns.is_none \/ d \in chns.names

\* C3 as claimed: the keys of the mapping returned by _load_network_results
\* are exactly the immediate subdirectories that are in the filter (when
\* one is given) and contain at least one .csv file.
C3_KeysAreCsvDirs ==
    Loaded =>
        Keys(net_results) =
            {d \in DOMAIN tree : InFilter(d) /\ \E f \in DOMAIN tree[d] : EndsWithCsv(f)}

\* C3 as amended: the keys are exactly the immediate subdirectories whose
\* name does not start with a dot, that are in the filter (when one is
\* given) and contain at least one .csv file whose name does not start with
\* a dot; no key maps to an empty sequence and none is outside the filter.
C3_KeysAreVisibleCsvDirs ==
    Loaded =>
        /\ Keys(net_results) =
               {d \in DOMAIN tree :
                   /\ ~IsHidden(d)
                   /\ InFilter(d)
                   /\ \E f \in DOMAIN tree[d] : EndsWithCsv(f) /\ ~IsHidden(f)}
        /\ \A c \in 1..Len(net_results) :
               /\ Len(net_results[c].val) > 0
               /\ InFilter(net_results[c].key)

\* a filter is given; a hidden directory in it and a directory outside it
\* hold a .csv file, and some channel is returned
C3_Witness ==
    /\ Loaded
    /\ ~chns.is_none
    /\ \E d \in DOMAIN tree :
          IsHidden(d) /\ InFilter(d) /\ "a_area1.csv" \in DOMAIN tree[d]
    /\ \E d \in DOMAIN tree : ~InFilter(d) /\ "a_area1.csv" \in DOMAIN tree[d]
    /\ Keys(net_results) # {}

\* a file that _load_network_results reads does not parse
HasBadCsv ==
    \E d \in DOMAIN tree :
        /\ ~IsHidden(d)
        /\ InFilter(d)
        /\ \E f \in DOMAIN tree[d] :
              EndsWithCsv(f) /\ ~IsHidden(f) /\ ~tree[d][f].parses

\* C4: when a file that is read does not parse, plot_csf_areas ends with
\* that failure: the loader never returns a mapping, no summary is built,
\* no figure is made and nothing is returned.
C4_FailFast ==
    HasBadCsv =>
        /\ pc \in {"start", "load_dir", "load_file", "raised"}
        /\ pc = "raised" => error = "ValueError"
        /\ net_summary = <<>>
        /\ ~figure.exists
        /\ ret = "unset"

\* the failure comes after a channel was stored and a file of the next
\* channel was parsed
C4_Witness ==
    /\ pc = "raised"
    /\ error = "ValueError"
    /\ Len(net_results) >= 1
    /\ Len(chn_res) >= 1

\* C6: drawing never changes a summary record: once _extract_network_summary
\* has built the summary, no step changes 'all', 'all_int', 'wave', 'sf' or
\* 'sf_int' of any record.
C6_SummaryUnchanged ==
    [][pc # "summary" => net_summary' = net_summary]_vars

\* a pass with normalisation and a reference model has divided its copies
\* of both curves, in the second test of a channel
C6_Witness ==
    /\ pc = "plot_test"
    /\ test_idx = 3
    /\ frame.compared
    /\ frame.raw # frame.org_yvals
    /\ frame.raw_int # frame.int_yvals

\* the labels of the network's curves on an axes, in drawing order
ModelLines(ax) == SelectSeq(ax.lines, LAMBDA l : l.label # "human")
HumanLines(ax) == SelectSeq(ax.lines, LAMBDA l : l.label = "human")

\* C2: with a reference model name, the comparison is made for every
\* channel: every curve of the network carries the two scores, and every
\* axes holds one reference overlay per curve.
C2_ComparedEveryChannel ==
    (pc = "done" /\ options.model_name # None) =>
        \A i \in 1..Len(figure.axes) :
            /\ \A k \in 1..Len(ModelLines(figure.axes[i])) :
                   ModelLines(figure.axes[i])[k].suffix # <<>>
            /\ Len(HumanLines(figure.axes[i])) = Len(ModelLines(figure.axes[i]))

\* C9: the channel loop never fails on a subplot, and when it is over the
\* figure has as many subplots as every channel has tests, each holding
\* the curves of all channels in processing order.
C9_SubplotPerTest ==
    /\ error # "IndexError"
    /\ pc = "done" =>
          \A c \in 1..Len(net_summary) :
              /\ Len(figure.axes) = Len(net_summary[c].val)
              /\ \A i \in 1..Len(figure.axes) :
                     /\ Len(ModelLines(figure.axes[i])) = Len(net_summary)
                     /\ ModelLines(figure.axes[i])[c].label =
                            _chn_plot_params(net_summary[c].key).label
====
